---- MODULE Spec2Model ----
(***************************************************************************)
(* Model of the SDGA engine of quinarymcgraphics (src/sdga.go): the three  *)
(* SDGA_Operator implementations, each a producer goroutine that streams   *)
(* Multivectors over a channel to a consumer ranging over that channel.    *)
(*                                                                         *)
(* sdga.go spells uint8 as "unint8" and fmt.Sprintf as "Sprintf" in        *)
(* QuenchingOperator.Apply; the model reads them as uint8 and fmt.Sprintf, *)
(* the same conversions GenesisOperator.Apply uses.                        *)
(*                                                                         *)
(* An image is a rectangle Rect(0,0,w,1), written as its width w, and a    *)
(* reference Pix into the heap of pixel buffers, so that sharing of        *)
(* storage between Multivectors is visible.                                *)
(***************************************************************************)
EXTENDS Integers, Sequences, FiniteSets, TLC

\* ---- bounds of the model ----
MaxW == 2          \* widest domain: rectangles Rect(0,0,w,1), w in 1..MaxW
MaxSteps == 3      \* largest durationSteps
MaxWrites == 1     \* writes the consumer makes into the state it holds

\* ---- program constants ----
\* variant of ChanCap: make(chan Multivector, 1)
ChanCapBuffered == 0 + 1

\* make(chan Multivector): an unbuffered channel
ChanCap == 0

Operators == {"Genesis", "Quenching", "Potentiality"}

\* durationSteps is an int: negative, zero and positive counts
StepCounts == (-1)..MaxSteps

\* (Geometry, Energy) of one cell of the stable states main builds:
\* Null and off-band cells, Active band cells, Potential band cells
CellKinds == {<<0, 0>>, <<255, 250>>, <<255, 0>>}

Byte == 0..255

\* uint8(NaN): the Go specification leaves the result of converting a
\* float that the target type cannot represent implementation-dependent.
\* A build converts every NaN to the same byte: 0 where the conversion
\* gives zero or the integer-indefinite value (amd64, arm64), 255 where it
\* saturates to the largest integer
NaNOutcomes == {0, 255}

VARIABLES
    op,             \* the operator invoked
    durationSteps,  \* its step count argument
    initial,        \* argument: Multivector
    target,         \* argument: Multivector
    heap,           \* pixel buffers: heap[ref] is a sequence of bytes
    pPc,            \* producer goroutine: "none", "run", "send", "done"
    i,              \* producer loop counter
    inflight,       \* states sent or being sent, not yet received
    closed,         \* the channel has been closed
    closeCount,     \* number of close(out) executed
    produced,       \* number of states the producer has computed
    received,       \* states the consumer has received, in order
    cPc,            \* consumer: "none", "range", "stopped", "done"
    writes,         \* writes the consumer made into received states
    script,         \* main: the scripted step it is at
    currentState,   \* main: currentState
    simHistory,     \* main: simHistory
    total           \* the result of a TotalEnergy call

\* the variables of main and of its TotalEnergy calls
mainVars == <<script, currentState, simHistory, total>>

vars == <<op, durationSteps, initial, target, heap, pPc, i, inflight,
          closed, closeCount, produced, received, cPc, writes, mainVars>>

\* ---- images and Multivectors ----

\* image.NewAlpha / image.NewGray: a zeroed buffer over the bounds
ZeroPix(w) == [x \in 1..w |-> 0]

\* a Multivector whose grids live at heap references g and e
MV(wg, g, we, e) ==
    [Geometry |-> [Rect |-> wg, Pix |-> g], Energy |-> [Rect |-> we, Pix |-> e]]

\* image.Alpha.AlphaAt / image.Gray.GrayAt: the zero colour outside Rect
At(h, img, x) == IF x \in 1..img.Rect THEN h[img.Pix][x] ELSE 0

\* the grids an input Multivector may hold over a domain of width w
InputGrids(w) == [1..w -> CellKinds]

Init ==
    /\ op \in Operators
    /\ durationSteps \in StepCounts
    /\ \E wi \in 1..MaxW, wt \in 1..MaxW :
         \E ci \in InputGrids(wi), ct \in InputGrids(wt) :
            /\ heap = << [x \in 1..wi |-> ci[x][1]], [x \in 1..wi |-> ci[x][2]],
                         [x \in 1..wt |-> ct[x][1]], [x \in 1..wt |-> ct[x][2]] >>
            /\ initial = MV(wi, 1, wi, 2)
            /\ target = MV(wt, 3, wt, 4)
    /\ pPc = "none"
    /\ i = 0
    /\ inflight = << >>
    /\ closed = FALSE
    /\ closeCount = 0
    /\ produced = 0
    /\ received = << >>
    /\ cPc = "none"
    /\ writes = 0
    /\ script = 0
    /\ currentState = initial
    /\ simHistory = << >>
    /\ total = 0

\* ---- float64 arithmetic and the uint8 conversion ----

RECURSIVE IsPow2(_)
IsPow2(n) == n = 1 \/ (n > 1 /\ n % 2 = 0 /\ IsPow2(n \div 2))

\* t := float64(j) / float64(n) and the products and sums built from it
\* are computed without rounding error when t is 0, 1 or a dyadic fraction
FloatExact(j, n) == j = 0 \/ j = n \/ IsPow2(n)

\* uint8(f) for a blend whose real value is num/den >= 0: the conversion
\* truncates.  When float64 rounding is in play and the real value is a
\* whole number k > 0, the computed f is k or just below k (for instance
\* 255*(1-t) + 255*t with t = 1/3 gives 254.99999999999997), and a build
\* may fuse the multiply-add, so either can be what a build computes.
\* Any other real value is at least 1/den away from a whole number and
\* truncates to its floor.
MayRoundBelow(num, den, exact) ==
    num % den = 0 /\ ~exact /\ num \div den > 0

\* below: the build computes f just below the whole number
Trunc(num, den, exact, below) ==
    IF MayRoundBelow(num, den, exact) /\ below
    THEN (num \div den) - 1
    ELSE num \div den

\* the real value of A*(1-t) + B*t, t = j/n, as the fraction GenesisNum / n
GenesisNum(a, b, j, n) == a * (n - j) + b * j

\* variant of GenesisCell: the weights t and 1-t exchanged
GenesisCellSwapped(a, b, j, n, nan, down) ==
    IF n = 0 THEN nan
    ELSE Trunc(GenesisNum(b, a, j, n), n, FloatExact(j, n), <<a, b>> \in down)

\* GenesisOperator: uint8(A*(1-t) + B*t) with t = j/n; t is NaN when n = 0
\* and the conversion then gives the build's byte nan; down holds the
\* operand pairs <<A, B>> whose blend the build computes just below a
\* whole number
GenesisCell(a, b, j, n, nan, down) ==
    IF n = 0 THEN nan
    ELSE Trunc(GenesisNum(a, b, j, n), n, FloatExact(j, n), <<a, b>> \in down)

Cube(x) == x * x * x

\* variant of DecayNum: the decay taken as t^3
DecayNumRising(j, n) == Cube(j)

\* math.Pow(1.0-t, 3.0) as the fraction DecayNum(j, n) / Cube(n)
DecayNum(j, n) == Cube(n - j)

\* the real value of A + (B-A)*decayFactor as QuenchingNum / Cube(n)
QuenchingNum(a, b, j, n) == a * Cube(n) + (b - a) * DecayNum(j, n)

\* QuenchingOperator: uint8(A + (B-A)*decayFactor), A from target and B
\* from initial; NaN when n = 0; (B-A)*decayFactor is exactly 0 when B = A
QuenchingCell(a, b, j, n, nan, down) ==
    IF n = 0 THEN nan
    ELSE Trunc(QuenchingNum(a, b, j, n), Cube(n), FloatExact(j, n) \/ a = b,
               <<a, b>> \in down)

\* bounds := initial.Geometry.Bounds()
Bounds == initial.Geometry.Rect

\* the operand pairs <<from, to>> of the cells of both grids over the bounds
OperandPairs(from, to) ==
    {<<At(heap, from.Geometry, x), At(heap, to.Geometry, x)>> : x \in 1..Bounds}
    \cup {<<At(heap, from.Energy, x), At(heap, to.Energy, x)>> : x \in 1..Bounds}

\* the operand pairs of step j whose blend may be computed below a whole
\* number
GenesisInexact(j) ==
    IF durationSteps = 0 THEN {}
    ELSE {p \in OperandPairs(initial, target) :
            MayRoundBelow(GenesisNum(p[1], p[2], j, durationSteps),
                          durationSteps, FloatExact(j, durationSteps))}

QuenchingInexact(j) ==
    IF durationSteps = 0 THEN {}
    ELSE {p \in OperandPairs(target, initial) :
            MayRoundBelow(QuenchingNum(p[1], p[2], j, durationSteps),
                          Cube(durationSteps),
                          FloatExact(j, durationSteps) \/ p[1] = p[2])}

\* the double loop over the bounds of GenesisOperator.Apply: the buffers
\* interGeom and interEnergy of step j
GenesisGeom(j, nan, down) ==
    [x \in 1..Bounds |->
        GenesisCell(At(heap, initial.Geometry, x), At(heap, target.Geometry, x),
                    j, durationSteps, nan, down)]

GenesisEnergy(j, nan, down) ==
    [x \in 1..Bounds |->
        GenesisCell(At(heap, initial.Energy, x), At(heap, target.Energy, x),
                    j, durationSteps, nan, down)]

\* the double loop of QuenchingOperator.Apply
QuenchingGeom(j, nan, down) ==
    [x \in 1..Bounds |->
        QuenchingCell(At(heap, target.Geometry, x), At(heap, initial.Geometry, x),
                      j, durationSteps, nan, down)]

QuenchingEnergy(j, nan, down) ==
    [x \in 1..Bounds |->
        QuenchingCell(At(heap, target.Energy, x), At(heap, initial.Energy, x),
                      j, durationSteps, nan, down)]

\* copy(dst, src): the first min(len(dst), len(src)) elements are copied
Copy(dst, src) ==
    [x \in 1..Len(dst) |-> IF x <= Len(src) THEN src[x] ELSE dst[x]]

\* ---- the channel ----

\* variant of LoopCond: the loop stops one step early
LoopCondStrict(j) == j < durationSteps

\* for i := 0; i <= durationSteps; i++ : the loop condition
LoopCond(j) == j <= durationSteps

\* variant of Incr: the loop advances by two
IncrSkip(j) == j + 2

\* i++
Incr(j) == j + 1

\* a state over bounds w whose grids g and e are newly allocated buffers
\* (image.NewAlpha, image.NewGray): bufs is what the allocation adds to the
\* heap, mv the Multivector that refers to it
NewState(g, e, w) ==
    [bufs |-> <<g, e>>, mv |-> MV(w, Len(heap) + 1, w, Len(heap) + 2)]

\* out <- ns.mv: the send completes at once when the channel buffer has
\* room, else the producer blocks in the send until a receive takes a state
Send(ns) ==
    /\ heap' = heap \o ns.bufs
    /\ inflight' = Append(inflight, [step |-> i, mv |-> ns.mv])
    /\ produced' = produced + 1
    /\ IF Len(inflight) + 1 > ChanCap
       THEN pPc' = "send" /\ i' = i
       ELSE pPc' = "run" /\ i' = Incr(i)

\* ---- invocation: make(chan), go func(), return out; the caller ranges ----

Apply(o) ==
    /\ pPc = "none"
    /\ op = o
    /\ pPc' = "run"
    /\ i' = 0
    /\ cPc' = "range"
    /\ UNCHANGED <<op, durationSteps, initial, target, heap, inflight,
                   closed, closeCount, produced, received, writes, mainVars>>

GenesisApply == Apply("Genesis")

QuenchingApply == Apply("Quenching")

PotentialityApply == Apply("Potentiality")

\* ---- producer goroutines ----

\* one iteration of the loop of GenesisOperator.Apply, up to its send
GenesisStep ==
    /\ op = "Genesis"
    /\ pPc = "run"
    /\ LoopCond(i)
    /\ \E nan \in NaNOutcomes, down \in SUBSET GenesisInexact(i) :
         Send(NewState(GenesisGeom(i, nan, down), GenesisEnergy(i, nan, down),
                       Bounds))
    /\ UNCHANGED <<op, durationSteps, initial, target, closed, closeCount,
                   received, cPc, writes, mainVars>>

\* one iteration of the loop of QuenchingOperator.Apply, up to its send
QuenchingStep ==
    /\ op = "Quenching"
    /\ pPc = "run"
    /\ LoopCond(i)
    /\ \E nan \in NaNOutcomes, down \in SUBSET QuenchingInexact(i) :
         Send(NewState(QuenchingGeom(i, nan, down),
                       QuenchingEnergy(i, nan, down), Bounds))
    /\ UNCHANGED <<op, durationSteps, initial, target, closed, closeCount,
                   received, cPc, writes, mainVars>>

\* variant of PotentialitySource: the copy is taken from initial
PotentialitySourceInitial == initial

\* the Multivector whose grids PotentialityOperator copies
PotentialitySource == target

\* variant of TargetCopy: the Multivector itself is sent, without a copy
TargetAlias(src) == [bufs |-> << >>, mv |-> src]

\* targetCopy: newMultivector over src.Geometry.Bounds() and the two
\* copies of Pix
TargetCopy(src) ==
    LET w == src.Geometry.Rect
    IN  NewState(Copy(ZeroPix(w), heap[src.Geometry.Pix]),
                 Copy(ZeroPix(w), heap[src.Energy.Pix]), w)

\* the body of PotentialityOperator.Apply's goroutine, up to its send
PotentialityStep ==
    /\ op = "Potentiality"
    /\ pPc = "run"
    /\ i = 0
    /\ Send(TargetCopy(PotentialitySource))
    /\ UNCHANGED <<op, durationSteps, initial, target, closed, closeCount,
                   received, cPc, writes, mainVars>>

\* variant of BodyDone: the goroutine never reaches its deferred close
BodyDoneNever == FALSE

\* the goroutine's body has run to its end
BodyDone == IF op = "Potentiality" THEN i >= 1 ELSE ~LoopCond(i)

\* defer close(out)
ProducerClose ==
    /\ pPc = "run"
    /\ BodyDone
    /\ closed' = TRUE
    /\ closeCount' = closeCount + 1
    /\ pPc' = "done"
    /\ UNCHANGED <<op, durationSteps, initial, target, heap, i, inflight,
                   produced, received, cPc, writes, mainVars>>

\* ---- consumer: for state := range out ----

\* the range loop receives the oldest state; a producer blocked in its
\* send is released and goes on to i++
Receive ==
    /\ cPc = "range"
    /\ inflight # << >>
    /\ received' = Append(received, Head(inflight))
    /\ inflight' = Tail(inflight)
    /\ IF pPc = "send"
       THEN pPc' = "run" /\ i' = Incr(i)
       ELSE UNCHANGED <<pPc, i>>
    /\ UNCHANGED <<op, durationSteps, initial, target, heap, closed,
                   closeCount, produced, cPc, writes, mainVars>>

\* the range loop ends when the channel is closed and drained
ConsumerEnd ==
    /\ cPc = "range"
    /\ closed
    /\ inflight = << >>
    /\ cPc' = "done"
    /\ UNCHANGED <<op, durationSteps, initial, target, heap, pPc, i, inflight,
                   closed, closeCount, produced, received, writes, mainVars>>

\* after its range loop the consumer stores into a cell of the state it
\* holds, the one it received last (currentState = state), what main
\* stores when it builds the Active state:
\* SetAlpha(x, y, color.Alpha{A: 255}) and SetGray(x, y, color.Gray{Y: 250})
ConsumerWrite ==
    /\ writes < MaxWrites
    /\ cPc = "done"
    /\ received # << >>
    /\ LET mv == received[Len(received)].mv
       IN  \E x \in 1..mv.Geometry.Rect :
              /\ <<heap[mv.Geometry.Pix][x], heap[mv.Energy.Pix][x]>> # <<255, 250>>
              /\ heap' = [heap EXCEPT ![mv.Geometry.Pix][x] = 255,
                                      ![mv.Energy.Pix][x] = 250]
    /\ writes' = writes + 1
    /\ UNCHANGED <<op, durationSteps, initial, target, pPc, i, inflight,
                   closed, closeCount, produced, received, cPc, mainVars>>

Next ==
    \/ GenesisApply
    \/ QuenchingApply
    \/ PotentialityApply
    \/ GenesisStep
    \/ QuenchingStep
    \/ PotentialityStep
    \/ ProducerClose
    \/ Receive
    \/ ConsumerEnd

Spec == Init /\ [][Next]_vars

\* the goroutines are scheduled whenever they can run
FairSpec == Spec /\ WF_vars(Next)

NextWrite == Next \/ ConsumerWrite

\* the same system with a consumer that writes into what it received
WriteSpec == Init /\ [][NextWrite]_vars

TypeOK ==
    /\ pPc \in {"none", "run", "send", "done"}
    /\ cPc \in {"none", "range", "done", "stopped"}
    /\ \A r \in 1..Len(heap) : \A x \in 1..Len(heap[r]) : heap[r][x] \in Byte

\* ---- properties ----

\* initial and target lie over the same domain
SameDomain ==
    /\ initial.Geometry.Rect = target.Geometry.Rect
    /\ initial.Energy.Rect = target.Energy.Rect

\* cell-for-cell equality of the grids of two Multivectors
EqualGrids(m1, m2) ==
    /\ m1.Geometry.Rect = m2.Geometry.Rect
    /\ m1.Energy.Rect = m2.Energy.Rect
    /\ \A x \in 1..m1.Geometry.Rect :
          At(heap, m1.Geometry, x) = At(heap, m2.Geometry, x)
    /\ \A x \in 1..m1.Energy.Rect :
          At(heap, m1.Energy, x) = At(heap, m2.Energy, x)

Looping == op \in {"Genesis", "Quenching"}

\* C1: for Genesis and Quenching with durationSteps = N >= 0 the consumer
\* receives the steps 0, 1, ..., N in increasing order: the k-th state it
\* receives is step k-1, and when its range loop has ended it holds
\* exactly the N+1 steps 0..N.
C1_StepOrder ==
    (Looping /\ durationSteps >= 0) =>
        /\ \A k \in 1..Len(received) : received[k].step = k - 1
        /\ Len(received) <= durationSteps + 1
        /\ cPc = "done" => Len(received) = durationSteps + 1

C1_Witness ==
    /\ Looping
    /\ durationSteps >= 2
    /\ cPc = "done"
    /\ Len(received) = durationSteps + 1
    /\ received[Len(received)].step = durationSteps

\* C2: for Genesis with durationSteps = N >= 1 over one domain the stream
\* holds exactly N+1 states, the state of index 0 equals initial and the
\* state of index N equals target in every cell of Geometry and Energy.
C2_GenesisEndpoints ==
    (op = "Genesis" /\ durationSteps >= 1 /\ SameDomain) =>
        /\ Len(received) <= durationSteps + 1
        /\ cPc = "done" => Len(received) = durationSteps + 1
        /\ Len(received) >= 1 => EqualGrids(received[1].mv, initial)
        /\ Len(received) >= durationSteps + 1 =>
              EqualGrids(received[durationSteps + 1].mv, target)

C2_Witness ==
    /\ op = "Genesis"
    /\ durationSteps >= 2
    /\ SameDomain
    /\ ~EqualGrids(initial, target)
    /\ cPc = "done"
    /\ EqualGrids(received[durationSteps + 1].mv, target)

\* C3: for Quenching with durationSteps = N >= 1 over one domain the state
\* of index 0 equals initial and the state of index N equals target in
\* every cell of Geometry and Energy.
C3_QuenchingEndpoints ==
    (op = "Quenching" /\ durationSteps >= 1 /\ SameDomain) =>
        /\ Len(received) >= 1 => EqualGrids(received[1].mv, initial)
        /\ Len(received) >= durationSteps + 1 =>
              EqualGrids(received[durationSteps + 1].mv, target)

C3_Witness ==
    /\ op = "Quenching"
    /\ durationSteps >= 2
    /\ SameDomain
    /\ ~EqualGrids(initial, target)
    /\ cPc = "done"
    /\ EqualGrids(received[1].mv, initial)
    /\ EqualGrids(received[durationSteps + 1].mv, target)

\* C4: Genesis or Quenching with durationSteps = 0 yields exactly one
\* state, and that state equals target in every cell of Geometry and Energy.
C4_ZeroStepsEndpoint ==
    (Looping /\ durationSteps = 0 /\ SameDomain /\ cPc = "done") =>
        /\ Len(received) = 1
        /\ EqualGrids(received[1].mv, target)

\* C5: Potentiality emits exactly one state and then ends the stream,
\* whatever initial and durationSteps are; the state equals target in
\* every cell of Geometry and Energy.
C5_PotentialityOneCopy ==
    op = "Potentiality" =>
        /\ produced <= 1
        /\ \A k \in 1..Len(received) : EqualGrids(received[k].mv, target)
        /\ closed => (produced = 1 /\ Len(received) = 1)
        /\ cPc = "done" => (closed /\ Len(received) = 1)

C5_Witness ==
    /\ op = "Potentiality"
    /\ durationSteps # 0
    /\ ~EqualGrids(initial, target)
    /\ cPc = "done"
    /\ Len(received) = 1
    /\ EqualGrids(received[1].mv, target)

\* the heap references of the grids of initial and target
InputRefs ==
    {initial.Geometry.Pix, initial.Energy.Pix,
     target.Geometry.Pix, target.Energy.Pix}

\* the states the operator has emitted, received or not
Emitted == received \o inflight

\* C6: no operator writes to the grids of initial or target, and every
\* emitted state owns storage shared neither with initial, nor with target,
\* nor with another emitted state; a write into a received state changes
\* no cell of initial or target.
C6_FreshStorage ==
    /\ [](\A k \in 1..Len(Emitted) :
            /\ Emitted[k].mv.Geometry.Pix # Emitted[k].mv.Energy.Pix
            /\ {Emitted[k].mv.Geometry.Pix, Emitted[k].mv.Energy.Pix}
                  \cap InputRefs = {}
            /\ \A m \in 1..Len(Emitted) : m # k =>
                  {Emitted[k].mv.Geometry.Pix, Emitted[k].mv.Energy.Pix}
                     \cap {Emitted[m].mv.Geometry.Pix, Emitted[m].mv.Energy.Pix} = {})
    /\ [][\A r \in InputRefs : heap'[r] = heap[r]]_vars

C6_Witness ==
    /\ writes >= 1
    /\ Len(received) >= 1
    /\ \E k \in 1..Len(received) : ~EqualGrids(received[k].mv, target)
    /\ op = "Potentiality"

\* C7: the handoff is synchronous per item: the producer is about to
\* compute a step only when every state it produced has been received, and
\* at most one produced state is waiting to be received.
C7_OneInFlight ==
    /\ produced = Len(received) + Len(inflight)
    /\ Len(inflight) <= 1
    /\ pPc = "run" => (inflight = << >> /\ Len(received) = i)
    /\ pPc = "send" => (Len(inflight) = 1 /\ Len(received) = i)

C7_Witness ==
    /\ Looping
    /\ pPc = "send"
    /\ i >= 2
    /\ Len(inflight) = 1
    /\ Len(received) = i

\* the number of states an invocation emits
Emissions ==
    IF op = "Potentiality" THEN 1
    ELSE IF durationSteps >= 0 THEN durationSteps + 1 ELSE 0

\* C8: the producer closes the stream exactly once, only after the last
\* state has been received; no state is delivered after the close; and the
\* consumer's range loop eventually ends.
C8_Completion ==
    /\ [](/\ closeCount <= 1
          /\ closed => (closeCount = 1 /\ inflight = << >>
                        /\ Len(received) = Emissions)
          /\ cPc = "done" => closed)
    /\ [][closed => received' = received]_vars
    /\ <>(cPc = "done")

C8_Witness ==
    /\ cPc = "done"
    /\ closed
    /\ closeCount = 1
    /\ Len(received) >= 3

\* C9: an invocation whose initial and target have different bounds is
\* rejected: no producer emits a state on the stream.
C9_MismatchRejected ==
    ~SameDomain => (produced = 0 /\ received = << >>)

\* C10: an invocation with a negative durationSteps is rejected before
\* production starts; it is not answered with a stream that ends.
C10_NegativeRejected ==
    durationSteps < 0 => (~closed /\ produced = 0)

\* ---- main: the stable states and the scripted sequence ----

\* simShape := image.Rect(0, 0, 100, 10).  An image over a w x h rectangle
\* is written with Rect = w * h, its cells numbered row by row as Pix
\* stores them, so the loops over y and x are the loop over 1..Rect.
SimW == 100

SimH == 10

SimCells == SimW * SimH

\* image.Alpha.PixOffset, counted from 1
PixOffset(x, y) == y * SimW + x + 1

\* activeGeomY := simShape.Dy() / 2
activeGeomY == SimH \div 2

\* variant of BandRows: only the row activeGeomY is set
BandRowsSingle == {activeGeomY}

\* the rows the loop of main sets: activeGeomY-1 and activeGeomY
BandRows == {activeGeomY - 1, activeGeomY}

\* color.Alpha{A: 255} and color.Gray{Y: 250}
ActiveAlpha == 255

ActiveGray == 250

\* the cells the loop for x := 0; x < simShape.Dx(); x++ stores into
BandCells == {PixOffset(x, y) : x \in 0..(SimW - 1), y \in BandRows}

\* the step counts of the three scripted invocations
PotentialitySteps == 0

GenesisSteps == 50

QuenchingSteps == 20

\* the zero Multivector, before main has defined anything
NoMV == MV(0, 0, 0, 0)

\* PSI_NULL, PSI_ACTIVE and PSI_POTENTIAL as main leaves them: the
\* buffers of the three newMultivector calls are heap[1..6] and
\* PSI_POTENTIAL.Geometry = PSI_ACTIVE.Geometry
PSI_NULL == MV(SimCells, 1, SimCells, 2)

PSI_ACTIVE == MV(SimCells, 3, SimCells, 4)

PSI_POTENTIAL == MV(SimCells, 3, SimCells, 6)

\* the heap references a Multivector holds
Refs(mv) == {mv.Geometry.Pix, mv.Energy.Pix}

\* the garbage collector: a buffer nothing refers to is gone
Collect(h, live) == [r \in 1..Len(h) |-> IF r \in live THEN h[r] ELSE << >>]

\* what main and the running producer refer to
Live(cs, ini, infl) ==
    Refs(PSI_NULL) \cup Refs(PSI_ACTIVE) \cup Refs(PSI_POTENTIAL)
    \cup Refs(cs) \cup Refs(ini)
    \cup UNION {Refs(infl[k].mv) : k \in 1..Len(infl)}

MainInit ==
    /\ op = "none"
    /\ durationSteps = 0
    /\ initial = NoMV
    /\ target = NoMV
    /\ heap = << >>
    /\ pPc = "none"
    /\ i = 0
    /\ inflight = << >>
    /\ closed = FALSE
    /\ closeCount = 0
    /\ produced = 0
    /\ received = << >>
    /\ cPc = "none"
    /\ writes = 0
    /\ script = -1
    /\ currentState = NoMV
    /\ simHistory = << >>
    /\ total = 0

\* main, from simShape to var simHistory: the three newMultivector calls,
\* the loop that sets the band of PSI_ACTIVE, the assignment of
\* PSI_ACTIVE.Geometry to PSI_POTENTIAL.Geometry, currentState := PSI_NULL
DefineStableStates ==
    /\ script = -1
    /\ heap' = Collect(
          << ZeroPix(SimCells), ZeroPix(SimCells),
             [k \in 1..SimCells |-> IF k \in BandCells THEN ActiveAlpha ELSE 0],
             [k \in 1..SimCells |-> IF k \in BandCells THEN ActiveGray ELSE 0],
             ZeroPix(SimCells), ZeroPix(SimCells) >>,
          Live(PSI_NULL, PSI_NULL, << >>))
    /\ currentState' = PSI_NULL
    /\ simHistory' = << >>
    /\ script' = 0
    /\ UNCHANGED <<op, durationSteps, initial, target, pPc, i, inflight,
                   closed, closeCount, produced, received, cPc, writes, total>>

\* variant of Drained: the next step starts once a state was received
DrainedEarly == received # << >>

\* the range loop over the previous channel has ended
Drained == cPc = "done"

\* variant of ArgInitial: every invocation starts from PSI_NULL
ArgInitialNull == PSI_NULL

\* the first argument of every scripted Apply
ArgInitial == currentState

\* opChan := Operator{}.Apply(currentState, tgt, n) as the k-th scripted
\* step, and main enters the range loop over opChan
MainApply(k, o, tgt, n) ==
    /\ script = k - 1
    /\ k > 1 => Drained
    /\ script' = k
    /\ op' = o
    /\ durationSteps' = n
    /\ initial' = ArgInitial
    /\ target' = tgt
    /\ pPc' = "run"
    /\ i' = 0
    /\ inflight' = << >>
    /\ closed' = FALSE
    /\ received' = << >>
    /\ cPc' = "range"
    /\ heap' = Collect(heap, Live(currentState, ArgInitial, << >>))
    /\ UNCHANGED <<closeCount, produced, writes, currentState, simHistory, total>>

MainPotentiality == MainApply(1, "Potentiality", PSI_POTENTIAL, PotentialitySteps)

MainGenesis == MainApply(2, "Genesis", PSI_ACTIVE, GenesisSteps)

MainQuenching == MainApply(3, "Quenching", PSI_NULL, QuenchingSteps)

\* for state := range opChan { currentState = state }: one iteration
MainReceive ==
    /\ script \in 1..3
    /\ cPc = "range"
    /\ inflight # << >>
    /\ currentState' = Head(inflight).mv
    /\ received' = <<Head(inflight)>>
    /\ inflight' = Tail(inflight)
    /\ IF pPc = "send"
       THEN pPc' = "run" /\ i' = Incr(i)
       ELSE UNCHANGED <<pPc, i>>
    /\ heap' = Collect(heap, Live(Head(inflight).mv, initial, Tail(inflight)))
    /\ UNCHANGED <<op, durationSteps, initial, target, closed, closeCount,
                   produced, cPc, writes, script, simHistory, total>>

\* the last Println of main, and main returns
MainReturn ==
    /\ script = 3
    /\ Drained
    /\ script' = 4
    /\ UNCHANGED <<op, durationSteps, initial, target, heap, pPc, i, inflight,
                   closed, closeCount, produced, received, cPc, writes,
                   currentState, simHistory, total>>

MainNext ==
    \/ DefineStableStates
    \/ MainPotentiality
    \/ MainGenesis
    \/ MainQuenching
    \/ GenesisStep
    \/ QuenchingStep
    \/ PotentialityStep
    \/ ProducerClose
    \/ MainReceive
    \/ ConsumerEnd
    \/ MainReturn

MainSpec == MainInit /\ [][MainNext]_vars

\* main and the producer goroutines are scheduled whenever they can run
MainFairSpec == MainSpec /\ WF_vars(MainNext)

\* ---- Multivector.TotalEnergy ----

\* variant of HasGeometry: every cell counts
HasGeometryAlways(a) == a >= 0

\* if mv.Geometry.AlphaAt(x, y).A > 0
HasGeometry(a) == a > 0

\* the row length and the row count of an image: main's images are SimW by
\* SimH, row after row in Pix; every other image is a single row
Dx(img) == IF img.Rect = SimCells THEN SimW ELSE img.Rect
Dy(img) == IF img.Rect = 0 THEN 0 ELSE img.Rect \div Dx(img)

\* for x := bounds.Min.X; x < bounds.Max.X; x++: what the columns lo..hi-1
\* of row y add to total.  total is a uint64 and cannot overflow here, so
\* the additions are taken in halves instead of left to right, which
\* keeps the evaluation shallow.
RECURSIVE TotalEnergyRow(_, _, _, _, _)
TotalEnergyRow(h, mv, y, lo, hi) ==
    IF lo >= hi THEN 0
    ELSE IF hi = lo + 1
    THEN (IF HasGeometry(At(h, mv.Geometry, y * Dx(mv.Energy) + lo + 1))
          THEN At(h, mv.Energy, y * Dx(mv.Energy) + lo + 1)
          ELSE 0)
    ELSE TotalEnergyRow(h, mv, y, lo, (lo + hi) \div 2)
         + TotalEnergyRow(h, mv, y, (lo + hi) \div 2, hi)

\* for y := bounds.Min.Y; y < bounds.Max.Y; y++: what the rows from y on add
\* to total
RECURSIVE TotalEnergyFrom(_, _, _)
TotalEnergyFrom(h, mv, y) ==
    IF y >= Dy(mv.Energy) THEN 0
    ELSE TotalEnergyRow(h, mv, y, 0, Dx(mv.Energy))
         + TotalEnergyFrom(h, mv, y + 1)

\* var total uint64; the loops; return total
TotalEnergy(h, mv) == TotalEnergyFrom(h, mv, 0)

\* C11: when main has run its script the history holds the
\* 1 + 51 + 21 = 73 emitted states in order and its last entry equals the
\* Null stable state in every cell.
C11_History ==
    script = 4 =>
        /\ Len(simHistory) = 1 + (GenesisSteps + 1) + (QuenchingSteps + 1)
        /\ EqualGrids(simHistory[Len(simHistory)], PSI_NULL)

\* C12: main is sequential across the scripted steps: it starts the
\* producer of the next step only when the stream of the step before is
\* closed and drained and its producer has returned, so the producers
\* started and not yet returned are never more than one.
C12_Sequential ==
    /\ [][(script' # script /\ script' \in 2..3) =>
             (pPc = "done" /\ closed /\ inflight = << >> /\ cPc = "done")]_vars
    /\ [](script \in 1..4 =>
             /\ closeCount <= 3
             /\ (IF script = 4 THEN 3 ELSE script) - closeCount \in {0, 1}
             /\ (pPc \in {"run", "send"}) <=>
                   ((IF script = 4 THEN 3 ELSE script) - closeCount = 1))

C12_Witness ==
    /\ script = 3
    /\ pPc = "send"
    /\ closeCount = 2
    /\ i >= 1

\* C14: on the 100x10 domain the Active stable state has coverage 255 and
\* intensity 250 on exactly the band of the 2 rows 4 and 5, 100 cells each,
\* and 0 elsewhere, and its total energy is 50000; the Potential stable
\* state has Active's coverage, intensity 0 everywhere and total energy 0.
C14_StableStates ==
    script >= 0 =>
        /\ SimW = 100 /\ SimH = 10
        /\ \A k \in 1..SimCells :
              LET inBand == (k - 1) \div 100 \in {4, 5}
              IN  /\ At(heap, PSI_ACTIVE.Geometry, k) = (IF inBand THEN 255 ELSE 0)
                  /\ At(heap, PSI_ACTIVE.Energy, k) = (IF inBand THEN 250 ELSE 0)
                  /\ At(heap, PSI_POTENTIAL.Geometry, k)
                        = At(heap, PSI_ACTIVE.Geometry, k)
                  /\ At(heap, PSI_POTENTIAL.Energy, k) = 0
        /\ TotalEnergy(heap, PSI_ACTIVE) = 50000
        /\ TotalEnergy(heap, PSI_POTENTIAL) = 0

C14_Witness ==
    /\ script = 0
    /\ TotalEnergy(heap, PSI_ACTIVE) = 100 * 2 * 250
    /\ TotalEnergy(heap, PSI_POTENTIAL) = 0

\* the target of the k-th scripted step
ScriptTarget(k) ==
    IF k = 1 THEN PSI_POTENTIAL ELSE IF k = 2 THEN PSI_ACTIVE ELSE PSI_NULL

StableRefs == Refs(PSI_NULL) \cup Refs(PSI_ACTIVE) \cup Refs(PSI_POTENTIAL)

\* C17: main threads its current state through the script: the first
\* invocation receives the Null stable state, every later one the last
\* state the invocation before emitted, never a stable state itself, and
\* after the steps 1, 2, 3 the current state equals Potential, Active, Null.
C17_Threading ==
    /\ [][(script' # script /\ script' \in 1..3) =>
             /\ initial' = currentState
             /\ script' = 1 => currentState = PSI_NULL
             /\ script' > 1 => (received # << >>
                                /\ currentState = received[Len(received)].mv)]_vars
    /\ [](/\ script = 1 => initial = PSI_NULL
          /\ script \in 2..3 => Refs(initial) \cap StableRefs = {}
          /\ (script \in 1..3 /\ cPc = "done") =>
                EqualGrids(currentState, ScriptTarget(script))
          /\ script = 4 => EqualGrids(currentState, PSI_NULL))

C17_Witness ==
    /\ script = 4
    /\ EqualGrids(currentState, PSI_NULL)
    /\ Refs(currentState) \cap StableRefs = {}
    /\ produced = 1 + (GenesisSteps + 1) + (QuenchingSteps + 1)

\* C19: under weak fairness main's scripted run terminates, and when it
\* has ended every producer has returned, every stream is closed and
\* nothing waits on a handoff.
C19_Termination ==
    /\ <>(script = 4)
    /\ [](script = 4 =>
             /\ pPc = "done"
             /\ cPc = "done"
             /\ closed
             /\ closeCount = 3
             /\ inflight = << >>)

C19_Witness ==
    /\ script = 4
    /\ closeCount = 3
    /\ pPc = "done"
    /\ inflight = << >>

\* ---- TotalEnergy applied to arbitrary Multivectors ----

\* coverage values: none, the least positive one, full
GeomSamples == {0, 1, 255}

\* intensity values
EnergySamples == {0, 250, 255}

EnergyInit ==
    /\ \E wg \in 1..MaxW, we \in 1..MaxW :
         \E g \in [1..wg -> GeomSamples], e \in [1..we -> EnergySamples] :
            /\ heap = <<g, e>>
            /\ initial = MV(wg, 1, we, 2)
    /\ target = NoMV
    /\ currentState = initial
    /\ op = "none"
    /\ durationSteps = 0
    /\ pPc = "none"
    /\ i = 0
    /\ inflight = << >>
    /\ closed = FALSE
    /\ closeCount = 0
    /\ produced = 0
    /\ received = << >>
    /\ cPc = "none"
    /\ writes = 0
    /\ script = 0
    /\ simHistory = << >>
    /\ total = 0

\* a call of currentState.TotalEnergy()
TotalEnergyCall ==
    /\ cPc = "none"
    /\ total' = TotalEnergy(heap, currentState)
    /\ cPc' = "done"
    /\ UNCHANGED <<op, durationSteps, initial, target, heap, pPc, i, inflight,
                   closed, closeCount, produced, received, writes, script,
                   currentState, simHistory>>

EnergyNext == TotalEnergyCall

EnergySpec == EnergyInit /\ [][EnergyNext]_vars

\* the sum of f over the finite set S
RECURSIVE SumOver(_, _)
SumOver(S, f) ==
    IF S = {} THEN 0
    ELSE LET x == CHOOSE y \in S : TRUE IN f[x] + SumOver(S \ {x}, f)

\* the cells of mv's Energy grid that lie in its Geometry grid with a
\* coverage above 0
Covered(mv) ==
    {x \in 1..mv.Energy.Rect : At(heap, mv.Geometry, x) > 0}

\* C13: TotalEnergy is the sum of Energy over exactly the cells whose
\* Geometry is above 0; a cell of Geometry 0 adds nothing whatever its
\* Energy, so a state of Geometry 0 everywhere has total 0 in every size.
C13_TotalEnergy ==
    (op = "none" /\ cPc = "done") =>
        /\ total = SumOver(Covered(currentState),
                           [x \in 1..currentState.Energy.Rect |->
                               At(heap, currentState.Energy, x)])
        /\ Covered(currentState) = {} => total = 0

C13_Witness ==
    /\ op = "none"
    /\ cPc = "done"
    /\ currentState.Energy.Rect = 2
    /\ At(heap, currentState.Geometry, 1) = 0
    /\ At(heap, currentState.Energy, 1) = 255
    /\ At(heap, currentState.Geometry, 2) = 1
    /\ At(heap, currentState.Energy, 2) = 250
    /\ total = 250

\* ---- a consumer that stops reading ----

\* the caller leaves its range loop (break, return) before the stream has
\* ended and never receives again
ConsumerStop ==
    /\ cPc = "range"
    /\ cPc' = "stopped"
    /\ UNCHANGED <<op, durationSteps, initial, target, heap, pPc, i, inflight,
                   closed, closeCount, produced, received, writes, mainVars>>

StopNext == Next \/ ConsumerStop

StopSpec == Init /\ [][StopNext]_vars

\* C18: when the consumer stops after k states, k below the number the
\* operator emits, the producer computes at most the next state, stays
\* blocked in its send for ever, never closes the stream and never
\* returns.
C18_BlockedProducer ==
    /\ []((cPc = "stopped" /\ Len(received) < Emissions) =>
             /\ ~closed
             /\ closeCount = 0
             /\ pPc # "done"
             /\ produced <= Len(received) + 1
             /\ i <= Len(received))
    /\ [][(cPc = "stopped" /\ pPc = "send") =>
             /\ pPc' = "send"
             /\ i' = i
             /\ produced' = produced
             /\ inflight' = inflight
             /\ ~closed']_vars

C18_Witness ==
    /\ cPc = "stopped"
    /\ pPc = "send"
    /\ Looping
    /\ Len(received) >= 1
    /\ Len(received) < Emissions
    /\ produced = Len(received) + 1
    /\ ~closed

\* ---- the emitted values against the blends ----

\* the nearest whole number to num/den >= 0, halves upward
RoundNearest(num, den) == (2 * num + den) \div (2 * den)

\* the grids of a Multivector
Grids == {"Geometry", "Energy"}

\* the value of cell x of grid f in the k-th emitted state
EmittedAt(k, f, x) == At(heap, Emitted[k].mv[f], x)

\* C15: for Genesis with N >= 1 every emitted value is the nearest whole
\* number to the exact blend A*(1-t) + B*t, t = i/N, and lies in 0..255.
C15_GenesisRounds ==
    (op = "Genesis" /\ durationSteps >= 1 /\ SameDomain) =>
        \A k \in 1..Len(Emitted), f \in Grids, x \in 1..Bounds :
            /\ EmittedAt(k, f, x) \in Byte
            /\ EmittedAt(k, f, x) =
                  RoundNearest(GenesisNum(At(heap, initial[f], x),
                                          At(heap, target[f], x),
                                          Emitted[k].step, durationSteps),
                               durationSteps)

\* C16: for Quenching with N >= 1 every emitted value is
\* target + (initial - target) * (1 - i/N)^3 rounded to the nearest whole
\* number, and lies in 0..255.
C16_QuenchingRounds ==
    (op = "Quenching" /\ durationSteps >= 1 /\ SameDomain) =>
        \A k \in 1..Len(Emitted), f \in Grids, x \in 1..Bounds :
            /\ EmittedAt(k, f, x) \in Byte
            /\ EmittedAt(k, f, x) =
                  RoundNearest(QuenchingNum(At(heap, target[f], x),
                                            At(heap, initial[f], x),
                                            Emitted[k].step, durationSteps),
                               Cube(durationSteps))

\* ---- the decay curve over longer runs ----

MaxCurve == 5

\* cell values: none, main's intensity, full
CurveSamples == {0, 250, 255}

\* one cell per grid, any operator, 1..MaxCurve steps
CurveInit ==
    /\ op \in Operators
    /\ durationSteps \in 1..MaxCurve
    /\ \E gi \in CurveSamples, ei \in CurveSamples,
          gt \in CurveSamples, et \in CurveSamples :
            heap = << <<gi>>, <<ei>>, <<gt>>, <<et>> >>
    /\ initial = MV(1, 1, 1, 2)
    /\ target = MV(1, 3, 1, 4)
    /\ pPc = "none"
    /\ i = 0
    /\ inflight = << >>
    /\ closed = FALSE
    /\ closeCount = 0
    /\ produced = 0
    /\ received = << >>
    /\ cPc = "none"
    /\ writes = 0
    /\ script = 0
    /\ currentState = initial
    /\ simHistory = << >>
    /\ total = 0

CurveSpec == CurveInit /\ [][Next]_vars

Dist(a, b) == IF a >= b THEN a - b ELSE b - a

Between(v, a, b) == (a <= v /\ v <= b) \/ (b <= v /\ v <= a)

\* C20: for Quenching with N >= 1 the emitted values of every cell
\* approach target step after step, |v(i+1) - target| <= |v(i) - target|,
\* and each lies between target and initial inclusive.
C20_MonotoneDecay ==
    (op = "Quenching" /\ durationSteps >= 1 /\ SameDomain) =>
        \A k \in 1..Len(Emitted), f \in Grids, x \in 1..Bounds :
            /\ Between(EmittedAt(k, f, x), At(heap, target[f], x),
                       At(heap, initial[f], x))
            /\ k < Len(Emitted) =>
                  /\ Emitted[k + 1].step = Emitted[k].step + 1
                  /\ Dist(EmittedAt(k + 1, f, x), At(heap, target[f], x))
                       <= Dist(EmittedAt(k, f, x), At(heap, target[f], x))

\* a drained Quenching run that moved a cell strictly, one of whose values
\* was computed just below the whole number of the exact blend
C20_Witness ==
    /\ op = "Quenching"
    /\ cPc = "done"
    /\ durationSteps >= 3
    /\ Len(received) = durationSteps + 1
    /\ \E f \in Grids :
          /\ At(heap, initial[f], 1) # At(heap, target[f], 1)
          /\ At(heap, received[1].mv[f], 1) = At(heap, initial[f], 1)
          /\ At(heap, received[Len(received)].mv[f], 1) = At(heap, target[f], 1)
          /\ \E k \in 2..(Len(received) - 1) :
                (At(heap, received[k].mv[f], 1) + 1) * Cube(durationSteps)
                    = QuenchingNum(At(heap, target[f], 1), At(heap, initial[f], 1),
                                   received[k].step, durationSteps)

====
